---- MODULE Spec2Model ----
(***************************************************************************)
(* A model of the table-driven state machine engine of StateMachineLib.py  *)
(* (State, StateMachine), of the recovery tables of nzsfRecovery.py run by *)
(* it, and of the explicit per-state-function machine of                   *)
(* nonZeroSpeedSM.py.                                                      *)
(*                                                                         *)
(* Time: the engine reads the wall clock only to compute                   *)
(*   waitTime = (datetime.now() - startTime).total_seconds()               *)
(* and compares it with ERROR_TIME.  The model keeps `elapsed`, the true   *)
(* time in seconds since the current polling loop took startTime.  It      *)
(* saturates one second above ERROR_TIME: the only comparison made is      *)
(* waitTime > ERROR_TIME, so larger values are indistinguishable.          *)
(***************************************************************************)
EXTENDS Integers, Sequences, FiniteSets, TLC

VARIABLES
    program,     \* which script is running: "generic", "nzsfRecovery", "nonZeroSpeedSM"
    states,      \* StateMachine.states : upper-cased name -> State
    startState,  \* StateMachine.startState (None or an upper-cased name)
    endStates,   \* StateMachine.endStates (list of upper-cased names)
    prevState,   \* StateMachine.prevState
    Input,       \* records['Input'] : point name -> value, plus 'prevState'
    pc,          \* position of the process
    currState,   \* run's currState, held as its key in `states`
    nextState,   \* run_transitions' local nextState (Unbound until assigned)
    waitTime,    \* run_transitions' local waitTime
    elapsed,     \* seconds since startTime was taken (saturating)
    nscan,       \* scans of the table made in the current call (saturating)
    nadd,        \* add_state calls made so far
    error,       \* message of the exception that ended the process, or ""
    cameFrom,    \* history: name of the state that was current before this one
    log          \* what the process printed and wrote, in order (saturating)

vars == <<program, states, startState, endStates, prevState, Input, pc,
          currState, nextState, waitTime, elapsed, nscan, nadd, error,
          cameFrom, log>>

----------------------------------------------------------------------------
(* Bounds of the model *)

\* seconds by which the clock advances between two steps: TickStep or TickStep + 1
TickStep == 45
\* add_state calls made by a generic build script
MaxAdds == 4
\* entries kept in the log; later entries are dropped
MaxLog == 9
\* value at which the per-call scan counter saturates
MaxScan == 2
\* entries kept in the log of a recovery script
MaxRecLog == 60

(* Program constants *)

ERROR_TIME == 90

None == "<None>"
Unbound == "<unbound>"

----------------------------------------------------------------------------
(* Python helpers *)

LowerNames == <<"s", "a", "b", "c", "t", "u",
                "start", "no_fault", "follow_off", "voltage_zero", "clear_nzsf",
                "fault_cleared", "az_disassert", "el_disassert",
                "disable_tracking", "az_assert", "enable_tracking", "el_assert",
                "follow_on", "rec_success", "rec_error">>
UpperNames == <<"S", "A", "B", "C", "T", "U",
                "START", "NO_FAULT", "FOLLOW_OFF", "VOLTAGE_ZERO", "CLEAR_NZSF",
                "FAULT_CLEARED", "AZ_DISASSERT", "EL_DISASSERT",
                "DISABLE_TRACKING", "AZ_ASSERT", "ENABLE_TRACKING", "EL_ASSERT",
                "FOLLOW_ON", "REC_SUCCESS", "REC_ERROR">>

\* str.upper() on the names the model uses
upper(n) ==
    IF \E i \in DOMAIN LowerNames : LowerNames[i] = n
    THEN UpperNames[CHOOSE i \in DOMAIN LowerNames : LowerNames[i] = n]
    ELSE n

\* truth value of a name-or-None, as `if self.startState:` takes it
Truthy(x) == x /= None /\ x /= ""

Sat(t) == IF t > ERROR_TIME THEN ERROR_TIME + 1 ELSE t

\* entries the log keeps: the runs of the two recovery scripts are finite, and
\* their log is kept whole
LogCap == IF program = "generic" THEN MaxLog ELSE MaxRecLog

\* print(...) / PV.put(...): one more entry in the log
Emit(l, e) == IF Len(l) < LogCap THEN Append(l, e) ELSE l

Printed(kind, text) == [k |-> kind, s |-> text, v |-> ""]
Put(point, value) == [k |-> "put", s |-> point, v |-> value]
HandlerRan(name) == [k |-> "handler", s |-> name, v |-> ""]

----------------------------------------------------------------------------
(* StateMachineLib.State *)

\* one row of a transitions array: [NEXT_STATE, [INPUT_NAMES], CONDITION, ERROR, MESSAGE]
Row(target, inp, cond, err, msg) ==
    [target |-> target, inp |-> inp, cond |-> cond, error |-> err, msg |-> msg]

\* State.__init__
State(Name, Handler, Tarray, sS, eS) ==
    [name |-> Name, handler |-> Handler, tarray |-> Tarray,
     transitions |-> <<>>, startState |-> sS, endState |-> eS]

\* OrderedDict.__setitem__: transitions[key] = row.  A key already present
\* keeps its position and takes the new value.
DictSet(d, row) ==
    IF \E i \in DOMAIN d : d[i].target = row.target
    THEN [i \in DOMAIN d |-> IF d[i].target = row.target THEN row ELSE d[i]]
    ELSE Append(d, row)

RECURSIVE DictFill(_, _, _)
DictFill(d, tarray, k) ==
    IF k > Len(tarray) THEN d ELSE DictFill(DictSet(d, tarray[k]), tarray, k + 1)

\* State.init_transitions
init_transitions(s) ==
    IF ~s.endState
    THEN [s EXCEPT !.transitions = DictFill(s.transitions, s.tarray, 1)]
    ELSE s

\* tt[key]
Lookup(tt, key) == tt[CHOOSE i \in DOMAIN tt : tt[i].target = key]

HasKey(tt, key) == \E i \in DOMAIN tt : tt[i].target = key

----------------------------------------------------------------------------
(* Condition functions (the lambdas of the transition arrays) and handlers *)

\* abs() of a number
Abs(x) == IF x < 0 THEN -x ELSE x

\* Point values are kept in thousandths: 0.5 is 500, 0.1 is 100, 0.01 is 10.

\* The exception evaluating the condition raises, or "" when it raises none.
\*  - abs(i[n[1]]).value takes abs() of the PV object, not of its value: a
\*    TypeError, reached when the first operand of the `or` / `and` lets it be
\*    evaluated;
\*  - i['prevState'].value takes .value of a str: an AttributeError.
Raised(c, n, i) ==
    CASE c = "volt_gt_500" ->
            IF Abs(i[n[1]]) > 500 THEN "" ELSE "TypeError"
      [] c = "volt_gt_100" ->
            IF Abs(i[n[1]]) > 100 THEN "" ELSE "TypeError"
      [] c = "tracking_ok" -> "TypeError"
      [] c = "prev_value_is_follow_off" -> "AttributeError"
      [] OTHER -> ""

\* value of the condition when it does not raise
Cond(c, n, i) ==
    CASE c = "true" -> TRUE                  \* lambda n,i: True
      [] c = "val"  -> i[n[1]] /= 0          \* lambda n,i: i[n[0]].value
      [] c = "not_val" -> i[n[1]] = 0        \* lambda n,i: not(i[n[0]].value)
      [] c = "both_zero" ->                  \* not(i[n[0]].value) and not(i[n[1]].value)
            i[n[1]] = 0 /\ i[n[2]] = 0
      [] c = "either" ->                     \* i[n[0]].value or i[n[1]].value
            i[n[1]] /= 0 \/ i[n[2]] /= 0
      [] c = "volt_gt_500" ->                \* (abs(i[n[0]].value) > 0.5) or ...
            Abs(i[n[1]]) > 500
      [] c = "volt_gt_100" ->                \* (abs(i[n[0]].value) > 0.1) or ...
            Abs(i[n[1]]) > 100
      [] c = "prev_is_follow_on" ->          \* i[n[0]] == 'follow_on'
            i[n[1]] = "follow_on"
      [] c = "eq2" -> i[n[1]] = 2            \* i[n[0]].value == 2
      [] c = "ne1" -> i[n[1]] /= 1           \* i[n[0]].value != 1
      [] c = "ne2" -> i[n[1]] /= 2           \* i[n[0]].value != 2
      [] OTHER      -> FALSE

\* what the handlers of nzsfRecovery.py print and write; a handler of a generic
\* script has no effect the model follows
HandlerBody(h) ==
    CASE h = "start" ->
            <<Printed("print", "Initiating Non Zero Speed Fault Recovery")>>
      [] h = "no_fault" ->
            <<Printed("print", "Non Zero Speed Fault not present, ending sequence")>>
      [] h = "follow_off" -> <<Put("tcsMCSFollow", "Off"), Put("tcsApply", "3")>>
      [] h = "voltage_zero" -> <<Put("f1Reset", "1")>>
      [] h = "clear_nzsf" -> <<Put("f1Reset", "1")>>
      [] h = "az_disassert" -> <<Put("azDriveEn", "1")>>
      [] h = "el_disassert" -> <<Put("elDriveEn", "1")>>
      [] h = "disable_tracking" -> <<Put("mcsTrackDis", "1")>>
      [] h = "az_assert" -> <<Put("azDriveEn", "2")>>
      [] h = "enable_tracking" -> <<Put("mcsTrackDis", "0")>>
      [] h = "el_assert" -> <<Put("elDriveEn", "2")>>
      [] h = "follow_on" -> <<Put("tcsMCSFollow", "On"), Put("tcsApply", "3")>>
      [] h = "rec_success" ->
            <<Printed("print", "Non Zero Speed Fault recovery successful")>>
      [] h = "rec_error" ->
            <<Put("mcsTrackDis", "0"),
              Printed("print", "Non Zero Speed Fault recovery ended in error")>>
      [] OTHER -> <<>>

RECURSIVE EmitAll(_, _, _)
EmitAll(l, es, k) == IF k > Len(es) THEN l ELSE EmitAll(Emit(l, es[k]), es, k + 1)

\* State.run_handler: self.handler(iod).  The log notes the call, then holds
\* what the handler printed and wrote.
run_handler(s, l) == EmitAll(Emit(l, HandlerRan(s.handler)), HandlerBody(s.handler), 1)

----------------------------------------------------------------------------
(* The states a generic build script can register *)

GenericPoints == {"x", "y"}

s_trans == << Row("a", <<"x">>, "val", FALSE, ""),
              Row("t", <<"">>, "true", TRUE, "Error: timeout") >>

a_trans == << Row("t", <<"y">>, "val", TRUE, "Error: y still set"),
              Row("b", <<"">>, "true", FALSE, "") >>

b_trans == << Row("a", <<"">>, "true", FALSE, "again") >>

c_trans == << Row("t", <<"x">>, "val", TRUE, "Error: x set"),
              Row("b", <<"y">>, "val", FALSE, "") >>

GenericCatalog ==
    << State("s", "s", s_trans, TRUE, FALSE),
       State("a", "a", a_trans, FALSE, FALSE),
       State("b", "b", b_trans, FALSE, FALSE),
       State("c", "c", c_trans, TRUE, FALSE),
       State("t", "t", <<>>, FALSE, TRUE),
       State("u", "u", <<>>, TRUE, TRUE),
       State("", "e", b_trans, TRUE, FALSE) >>

----------------------------------------------------------------------------
(* nzsfRecovery.py: the states and their transition arrays *)

RecPoints == {"nzsAz", "nzsEl", "voltAz", "voltEl", "mcsFollow",
              "azDriveCond", "elDriveCond", "azPosErr", "elPosErr"}

\* the list `states`: name, 'SS' flag, 'ES' flag
RecStates ==
    << [n |-> "start", ss |-> TRUE, es |-> FALSE],
       [n |-> "no_fault", ss |-> FALSE, es |-> TRUE],
       [n |-> "follow_off", ss |-> FALSE, es |-> FALSE],
       [n |-> "voltage_zero", ss |-> FALSE, es |-> FALSE],
       [n |-> "clear_nzsf", ss |-> FALSE, es |-> FALSE],
       [n |-> "fault_cleared", ss |-> FALSE, es |-> FALSE],
       [n |-> "az_disassert", ss |-> FALSE, es |-> FALSE],
       [n |-> "el_disassert", ss |-> FALSE, es |-> FALSE],
       [n |-> "disable_tracking", ss |-> FALSE, es |-> FALSE],
       [n |-> "az_assert", ss |-> FALSE, es |-> FALSE],
       [n |-> "enable_tracking", ss |-> FALSE, es |-> FALSE],
       [n |-> "el_assert", ss |-> FALSE, es |-> FALSE],
       [n |-> "follow_on", ss |-> FALSE, es |-> FALSE],
       [n |-> "rec_success", ss |-> FALSE, es |-> TRUE],
       [n |-> "rec_error", ss |-> FALSE, es |-> TRUE] >>

\* mutant: the follow_off row is declared before the no_fault row
start_trans_follow_first ==
    << Row("follow_off", <<"mcsFollow">>, "val", FALSE, ""),
       Row("no_fault", <<"nzsAz", "nzsEl">>, "both_zero", FALSE, ""),
       Row("voltage_zero", <<"voltAz", "voltEl">>, "volt_gt_500", FALSE, ""),
       Row("clear_nzsf", <<"">>, "true", FALSE, "") >>

start_trans ==
    << Row("no_fault", <<"nzsAz", "nzsEl">>, "both_zero", FALSE, ""),
       Row("follow_off", <<"mcsFollow">>, "val", FALSE, ""),
       Row("voltage_zero", <<"voltAz", "voltEl">>, "volt_gt_500", FALSE, ""),
       Row("clear_nzsf", <<"">>, "true", FALSE, "") >>

follow_off_trans ==
    << Row("rec_error", <<"mcsFollow">>, "val", TRUE,
           "Error: Could not disable MCS Tracking"),
       Row("follow_on", <<"prevState">>, "prev_is_follow_on", FALSE, ""),
       Row("voltage_zero", <<"voltAz", "voltEl">>, "volt_gt_500", FALSE, ""),
       Row("clear_nzsf", <<"">>, "true", FALSE, "") >>

voltage_zero_trans ==
    << Row("rec_error", <<"voltAz", "voltEl">>, "volt_gt_100", TRUE,
           "Error: Unable to zero reference voltage"),
       Row("clear_nzsf", <<"">>, "true", FALSE, "") >>

clear_nzsf_trans ==
    << Row("rec_error", <<"nzsAz", "nzsEl">>, "either", TRUE,
           "Error: Unable to clear Non Zero Speed Fault from GIS"),
       Row("fault_cleared", <<"">>, "true", FALSE, "") >>

\* mutant: the el_disassert row is declared before the az_disassert row
fault_cleared_trans_el_first ==
    << Row("el_disassert", <<"elDriveCond">>, "eq2", FALSE, ""),
       Row("az_disassert", <<"azDriveCond">>, "eq2", FALSE, ""),
       Row("disable_tracking", <<"">>, "true", FALSE, "") >>

fault_cleared_trans ==
    << Row("az_disassert", <<"azDriveCond">>, "eq2", FALSE, ""),
       Row("el_disassert", <<"elDriveCond">>, "eq2", FALSE, ""),
       Row("disable_tracking", <<"">>, "true", FALSE, "") >>

az_disassert_trans ==
    << Row("rec_error", <<"azDriveCond">>, "ne1", TRUE,
           "Error: Azimuth Drive did not disassert"),
       Row("el_disassert", <<"">>, "true", FALSE, "") >>

el_disassert_trans ==
    << Row("rec_error", <<"elDriveCond">>, "ne1", TRUE,
           "Error: Elevation Drive did not disassert"),
       Row("disable_tracking", <<"">>, "true", FALSE, "") >>

disable_tracking_trans ==
    << Row("az_assert", <<"">>, "true", FALSE, "") >>

az_assert_trans ==
    << Row("rec_error", <<"azDriveCond">>, "ne2", TRUE,
           "Error: Azimuth Drive did not assert"),
       Row("enable_tracking", <<"">>, "true", FALSE, "") >>

enable_tracking_trans ==
    << Row("el_assert", <<"">>, "true", FALSE, "") >>

el_assert_trans ==
    << Row("rec_error", <<"elDriveCond">>, "ne2", TRUE,
           "Error: Elevation Drive did not assert"),
       Row("follow_on", <<"">>, "true", FALSE, "") >>

follow_on_trans ==
    << Row("rec_error", <<"mcsFollow">>, "not_val", TRUE,
           "Error: Could not disable MCS Tracking"),
       Row("rec_success", <<"voltAz", "azPosErr", "voltEl", "elPosErr">>,
           "tracking_ok", FALSE, ""),
       Row("rec_error", <<"prevState">>, "prev_value_is_follow_off", TRUE,
           "MCS Follow enabled but telescope not tracking"),
       Row("follow_off", <<"">>, "true", FALSE, "Resetting MCS Follow mode") >>

\* eval(n + '_trans')
TransOf(n) ==
    CASE n = "start" -> start_trans
      [] n = "follow_off" -> follow_off_trans
      [] n = "voltage_zero" -> voltage_zero_trans
      [] n = "clear_nzsf" -> clear_nzsf_trans
      [] n = "fault_cleared" -> fault_cleared_trans
      [] n = "az_disassert" -> az_disassert_trans
      [] n = "el_disassert" -> el_disassert_trans
      [] n = "disable_tracking" -> disable_tracking_trans
      [] n = "az_assert" -> az_assert_trans
      [] n = "enable_tracking" -> enable_tracking_trans
      [] n = "el_assert" -> el_assert_trans
      [] n = "follow_on" -> follow_on_trans
      [] OTHER -> <<>>              \* no_fault_trans, rec_success_trans, rec_error_trans

----------------------------------------------------------------------------
(* StateMachineLib.State.run_transitions *)

Min(x, y) == IF x < y THEN x ELSE y

\* mutant: the for loop without its break, the last true condition wins
RECURSIVE LastTrue(_, _, _)
LastTrue(tt, i, k) ==
    IF k > Len(tt) THEN 0
    ELSE IF Raised(tt[k].cond, tt[k].inp, i) /= "" THEN -k
    ELSE LET rest == LastTrue(tt, i, k + 1)
         IN  IF rest /= 0 THEN rest
             ELSE IF Cond(tt[k].cond, tt[k].inp, i) THEN k ELSE 0

\* the for loop over tt: index k of the first row whose condition is true,
\* 0 when no condition is true, -k when the condition of row k raised before
\* any was true
RECURSIVE FirstTrue(_, _, _)
FirstTrue(tt, i, k) ==
    IF k > Len(tt) THEN 0
    ELSE IF Raised(tt[k].cond, tt[k].inp, i) /= "" THEN -k
    ELSE IF Cond(tt[k].cond, tt[k].inp, i) THEN k
    ELSE FirstTrue(tt, i, k + 1)

\* mutant: the error path is accepted at the timeout, not after it
AcceptAtTimeout(err, wt) == ~err \/ wt >= ERROR_TIME

\* mutant: the error path is never accepted
AcceptNoTimeout(err, wt) == ~err

\* the while loop's exit test: not(tt[nextState]['error']) or waitTime > ERROR_TIME
Accept(err, wt) == ~err \/ wt > ERROR_TIME

\* mutant: startTime is not taken anew, the time of the earlier states counts
StartTimerOnce(e) == e

\* startTime = datetime.now(): the time elapsed since startTime starts at zero
StartTimer(e) == 0

\* the locals of a fresh call of run_transitions
EnterPoll ==
    /\ waitTime' = 0
    /\ nextState' = Unbound
    /\ elapsed' = StartTimer(elapsed)
    /\ nscan' = 0

\* the process ends on an uncaught exception
Crash(exc) ==
    /\ pc' = "crashed"
    /\ error' = exc

\* one iteration of `while True`: scan the table, read the clock, test the exit
Scan ==
    /\ pc = "poll"
    /\ program \in {"generic", "nzsfRecovery"}
    /\ LET tt  == states[currState].transitions
           hit == FirstTrue(tt, Input, 1)
           ns  == IF hit > 0 THEN tt[hit].target ELSE nextState
       IN  /\ nscan' = Min(nscan + 1, MaxScan)
           /\ IF hit < 0
              THEN /\ Crash(Raised(tt[-hit].cond, tt[-hit].inp, Input))
                   /\ UNCHANGED <<nextState, waitTime>>
              ELSE IF ns = Unbound
              THEN /\ Crash("UnboundLocalError")
                   /\ waitTime' = elapsed
                   /\ UNCHANGED nextState
              ELSE /\ nextState' = ns
                   /\ waitTime' = elapsed
                   /\ pc' = IF Accept(Lookup(tt, ns).error, elapsed)
                            THEN "ret" ELSE "poll"
                   /\ UNCHANGED error
    /\ UNCHANGED <<program, states, startState, endStates, prevState, Input,
                   currState, elapsed, nadd, cameFrom, log>>

----------------------------------------------------------------------------
(* StateMachineLib.StateMachine *)

InList(x, l) == \E i \in DOMAIN l : l[i] = x

MoreThanOne == "InitializationError: More than one Start State defined"
NoStart == "InitializationError: No Start State defined"
NoEnd == "InitializationError: No End State defined"

\* StateMachine.add_state, after s.init_transitions() as the build script calls it
add_state(st, l0) ==
    LET s    == init_transitions(st)
        name == upper(s.name)
        l1   == Emit(l0, Printed("added", name))
    IN  /\ states' = [k \in DOMAIN states \cup {name} |->
                         IF k = name THEN s ELSE states[k]]
        /\ nadd' = nadd + 1
        /\ IF s.startState /\ Truthy(startState)
           THEN /\ log' = Emit(l1, Printed("error", MoreThanOne))
                /\ pc' = "exited"
                /\ error' = MoreThanOne
                /\ UNCHANGED <<startState, endStates>>
           ELSE /\ startState' = IF s.startState THEN name ELSE startState
                /\ endStates' = IF s.endState THEN Append(endStates, name)
                                ELSE endStates
                /\ log' = l1
                /\ UNCHANGED <<pc, error>>
        /\ UNCHANGED <<program, prevState, Input, currState, nextState,
                       waitTime, elapsed, nscan, cameFrom>>

\* a build script registers each of its State objects once
AddState ==
    /\ pc = "build"
    /\ program = "generic"
    /\ nadd < MaxAdds
    /\ \E k \in DOMAIN GenericCatalog :
           /\ upper(GenericCatalog[k].name) \notin DOMAIN states
           /\ add_state(GenericCatalog[k], log)

\* one iteration of the loop of nzsfRecovery's __main__
AddRec ==
    /\ pc = "build"
    /\ program = "nzsfRecovery"
    /\ nadd < Len(RecStates)
    /\ LET sn == RecStates[nadd + 1]
       IN  add_state(State(sn.n, sn.n, TransOf(sn.n), sn.ss, sn.es),
                     Emit(log, Printed("ready", sn.n)))

\* mutant: run does not check that an end state is defined
RunCheckNoEnd(ss, es) == IF ~Truthy(ss) THEN NoStart ELSE ""

\* the checks that open StateMachine.run: the message of the error raised, or ""
RunCheck(ss, es) ==
    IF ~Truthy(ss) THEN NoStart
    ELSE IF es = <<>> THEN NoEnd
    ELSE ""

\* StateMachine.run up to the first call of run_transitions
Run ==
    /\ pc = "build"
    /\ \/ program = "generic"
       \/ program = "nzsfRecovery" /\ nadd = Len(RecStates)
    /\ IF RunCheck(startState, endStates) /= ""
       THEN /\ log' = Emit(log, Printed("error", RunCheck(startState, endStates)))
            /\ pc' = "exited"
            /\ error' = RunCheck(startState, endStates)
            /\ UNCHANGED <<prevState, currState, nextState, waitTime, elapsed,
                           nscan>>
       ELSE /\ currState' = startState
            /\ prevState' = startState
            /\ pc' = "poll"
            /\ EnterPoll
            /\ UNCHANGED <<log, error>>
    /\ UNCHANGED <<program, states, startState, endStates, Input, nadd, cameFrom>>

\* the end of run_transitions (print msg, return nextState) and the rest of the
\* body of run's loop, up to the next call of run_transitions
Advance ==
    /\ pc = "ret"
    /\ program \in {"generic", "nzsfRecovery"}
    /\ LET tt  == states[currState].transitions
           msg == Lookup(tt, nextState).msg
           l1  == IF msg /= "" THEN Emit(log, Printed("msg", msg)) ELSE log
           key == upper(nextState)
       IN  /\ Input' = [Input EXCEPT !["prevState"] = prevState]
           /\ prevState' = nextState
           /\ cameFrom' = states[currState].name
           /\ IF key \notin DOMAIN states
              THEN /\ Crash("KeyError")
                   /\ log' = l1
                   /\ UNCHANGED <<currState, nextState, waitTime, elapsed, nscan>>
              ELSE IF InList(key, endStates)
              THEN /\ currState' = key
                   /\ log' = Emit(l1, Printed("ended", key))
                   /\ pc' = "done"
                   /\ UNCHANGED <<nextState, waitTime, elapsed, nscan, error>>
              ELSE /\ currState' = key
                   /\ log' = Emit(l1, Printed("in", key))
                   /\ pc' = "poll"
                   /\ EnterPoll
                   /\ UNCHANGED error
    /\ UNCHANGED <<program, states, startState, endStates, nadd>>

----------------------------------------------------------------------------
(* nonZeroSpeedSM.py: the explicit machine, one function per state *)

\* the add_state calls of __main__, in order: name, end_state
NzsStates ==
    << [n |-> "start", es |-> FALSE],
       [n |-> "follow_off", es |-> FALSE],
       [n |-> "voltage_zero", es |-> FALSE],
       [n |-> "clear_nzsf", es |-> FALSE],
       [n |-> "fault_cleared", es |-> FALSE],
       [n |-> "az_disassert", es |-> FALSE],
       [n |-> "el_disassert", es |-> FALSE],
       [n |-> "disable_tracking", es |-> FALSE],
       [n |-> "az_assert", es |-> FALSE],
       [n |-> "enable_tracking", es |-> FALSE],
       [n |-> "el_assert", es |-> FALSE],
       [n |-> "follow_on", es |-> FALSE],
       [n |-> "no_fault", es |-> TRUE],
       [n |-> "rec_error", es |-> TRUE],
       [n |-> "rec_success", es |-> TRUE] >>

\* what a state function prints and writes before its polling loop, and what
\* the *_actions functions of the end states print and write
NzsEntry(h) ==
    CASE h = "start" ->
            <<Printed("print", "Initiating Non Zero Speed Fault Recovery")>>
      [] h = "no_fault" ->
            <<Printed("print", "Non Zero Speed Fault not present, ending sequence")>>
      [] h = "follow_off" -> <<Put("tcsMCSFollow", "Off"), Put("tcsApply", "3")>>
      [] h = "voltage_zero" -> <<Put("f1Reset", "1")>>
      [] h = "clear_nzsf" -> <<Put("f1Reset", "1")>>
      [] h = "az_disassert" -> <<Put("azDriveEn", "1")>>
      [] h = "el_disassert" -> <<Put("elDriveEn", "1")>>
      [] h = "disable_tracking" -> <<Put("mcsTrackDis", "1")>>
      [] h = "az_assert" -> <<Put("azDriveEn", "2")>>
      [] h = "enable_tracking" -> <<Put("mcsTrackDis", "0")>>
      [] h = "el_assert" -> <<Put("elDriveEn", "2")>>
      [] h = "follow_on" -> <<Put("tcsMCSFollow", "On"), Put("tcsApply", "3")>>
      [] h = "rec_success" ->
            <<Printed("print", "Non Zero Speed Fault recovery successful")>>
      [] h = "rec_error" ->
            <<Put("mcsTrackDis", "0"),
              Printed("print", "Non Zero Speed Fault recovery ended in error")>>
      [] OTHER -> <<>>

\* the state functions that poll: `while True` with a timeout
NzsHasLoop(h) ==
    h \in {"follow_off", "voltage_zero", "clear_nzsf", "az_disassert",
           "el_disassert", "az_assert", "el_assert", "follow_on"}

\* the points a state function reads
NzsReads(h) ==
    CASE h = "start" -> {"nzsAz", "nzsEl", "mcsFollow", "voltAz", "voltEl"}
      [] h = "follow_off" -> {"mcsFollow", "voltAz", "voltEl"}
      [] h = "voltage_zero" -> {"voltAz", "voltEl"}
      [] h = "clear_nzsf" -> {"nzsAz", "nzsEl"}
      [] h = "fault_cleared" -> {"azDriveCond", "elDriveCond"}
      [] h \in {"az_disassert", "az_assert"} -> {"azDriveCond"}
      [] h \in {"el_disassert", "el_assert"} -> {"elDriveCond"}
      [] h = "follow_on" -> {"mcsFollow", "voltAz", "azPosErr", "voltEl", "elPosErr"}
      [] OTHER -> {}

\* the test that breaks the polling loop of a state function
NzsOk(h, i) ==
    CASE h = "follow_off" -> i["mcsFollow"] = 0
      [] h = "voltage_zero" -> Abs(i["voltAz"]) < 100 /\ Abs(i["voltEl"]) < 100
      [] h = "clear_nzsf" -> i["nzsAz"] = 0 /\ i["nzsEl"] = 0
      [] h = "az_disassert" -> i["azDriveCond"] = 1
      [] h = "el_disassert" -> i["elDriveCond"] = 1
      [] h = "az_assert" -> i["azDriveCond"] = 2
      [] h = "el_assert" -> i["elDriveCond"] = 2
      [] h = "follow_on" -> i["mcsFollow"] /= 0
      [] OTHER -> TRUE

\* what a state function prints when its loop times out
NzsTimeoutMsg(h) ==
    CASE h = "follow_off" -> <<Printed("print", "Error: Unable to disable MCS Tracking")>>
      [] h = "voltage_zero" ->
            <<Printed("print", "Error: Unable to zero reference voltage"),
              Printed("print", "Az Volts: {0} - El Volts: {1}")>>
      [] h = "clear_nzsf" ->
            <<Printed("print", "Error: Unable to clear Non Zero Speed Fault from GIS")>>
      [] h = "az_disassert" -> <<Printed("print", "Error: Azimuth Drive did not disassert")>>
      [] h = "el_disassert" -> <<Printed("print", "Error: Elevation Drive did not disassert")>>
      [] h = "az_assert" -> <<Printed("print", "Error: Azimuth Drive did not assert")>>
      [] h = "el_assert" -> <<Printed("print", "Error: Elevation Drive did not assert")>>
      [] h = "follow_on" -> <<Printed("print", "Error: MCS did not start tracking")>>
      [] OTHER -> <<>>

VoltsHigh(i) == Abs(i["voltAz"]) > 500 \/ Abs(i["voltEl"]) > 500

NotTracking(i) ==
    \/ Abs(i["voltAz"]) < 100 /\ Abs(i["azPosErr"]) > 10
    \/ Abs(i["voltEl"]) < 100 /\ Abs(i["elPosErr"]) > 10

\* mutant: follow_on retries through follow_off whatever the previous state was
NzsNextAlwaysRetry(h, i) ==
    CASE h = "start" ->
            IF i["nzsAz"] /= 0 \/ i["nzsEl"] /= 0
            THEN IF i["mcsFollow"] /= 0 THEN "follow_off"
                 ELSE IF VoltsHigh(i) THEN "voltage_zero"
                 ELSE "clear_nzsf"
            ELSE "no_fault"
      [] h = "follow_off" ->
            IF i["prevState"] = "follow_on" THEN "follow_on"
            ELSE IF VoltsHigh(i) THEN "voltage_zero"
            ELSE "clear_nzsf"
      [] h = "voltage_zero" -> "clear_nzsf"
      [] h = "clear_nzsf" -> "fault_cleared"
      [] h = "fault_cleared" ->
            IF i["azDriveCond"] = 2 THEN "az_disassert"
            ELSE IF i["elDriveCond"] = 2 THEN "el_disassert"
            ELSE "disable_tracking"
      [] h = "az_disassert" -> "el_disassert"
      [] h = "el_disassert" -> "disable_tracking"
      [] h = "disable_tracking" -> "az_assert"
      [] h = "az_assert" -> "enable_tracking"
      [] h = "enable_tracking" -> "el_assert"
      [] h = "el_assert" -> "follow_on"
      [] h = "follow_on" ->
            IF NotTracking(i) THEN "follow_off" ELSE "rec_success"
      [] OTHER -> Unbound

\* newState as a state function chooses it once its loop is broken (or at once,
\* when it has no loop)
NzsNext(h, i) ==
    CASE h = "start" ->
            IF i["nzsAz"] /= 0 \/ i["nzsEl"] /= 0
            THEN IF i["mcsFollow"] /= 0 THEN "follow_off"
                 ELSE IF VoltsHigh(i) THEN "voltage_zero"
                 ELSE "clear_nzsf"
            ELSE "no_fault"
      [] h = "follow_off" ->
            IF i["prevState"] = "follow_on" THEN "follow_on"
            ELSE IF VoltsHigh(i) THEN "voltage_zero"
            ELSE "clear_nzsf"
      [] h = "voltage_zero" -> "clear_nzsf"
      [] h = "clear_nzsf" -> "fault_cleared"
      [] h = "fault_cleared" ->
            IF i["azDriveCond"] = 2 THEN "az_disassert"
            ELSE IF i["elDriveCond"] = 2 THEN "el_disassert"
            ELSE "disable_tracking"
      [] h = "az_disassert" -> "el_disassert"
      [] h = "el_disassert" -> "disable_tracking"
      [] h = "disable_tracking" -> "az_assert"
      [] h = "az_assert" -> "enable_tracking"
      [] h = "enable_tracking" -> "el_assert"
      [] h = "el_assert" -> "follow_on"
      [] h = "follow_on" ->
            IF NotTracking(i)
            THEN IF i["prevState"] = "follow_off" THEN "rec_error" ELSE "follow_off"
            ELSE "rec_success"
      [] OTHER -> Unbound

\* what a state function prints while it chooses newState
NzsNextMsg(h, i) ==
    IF h = "follow_on" /\ NotTracking(i) /\ i["prevState"] = "follow_off"
    THEN <<Printed("print", "Error: MCS Follow enabled but telescope not tracking")>>
    ELSE <<>>

NzsNoEnd == "InitializationError: No End States defined"

\* StateMachine.add_state of nonZeroSpeedSM: handlers[name.upper()] = handler.
\* The entry of `states` holds the handler's name and the end_state flag.
NzsAddState ==
    /\ pc = "build"
    /\ program = "nonZeroSpeedSM"
    /\ nadd < Len(NzsStates)
    /\ LET sn   == NzsStates[nadd + 1]
           name == upper(sn.n)
       IN  /\ states' = [k \in DOMAIN states \cup {name} |->
                            IF k = name THEN State(sn.n, sn.n, <<>>, FALSE, sn.es)
                            ELSE states[k]]
           /\ endStates' = IF sn.es THEN Append(endStates, name) ELSE endStates
    /\ nadd' = nadd + 1
    /\ UNCHANGED <<program, startState, prevState, Input, pc, currState,
                   nextState, waitTime, elapsed, nscan, error, cameFrom, log>>

\* StateMachine.set_start('start')
NzsSetStart ==
    /\ pc = "build"
    /\ program = "nonZeroSpeedSM"
    /\ nadd = Len(NzsStates)
    /\ startState = None
    /\ startState' = upper("start")
    /\ UNCHANGED <<program, states, endStates, prevState, Input, pc, currState,
                   nextState, waitTime, elapsed, nscan, nadd, error, cameFrom, log>>

\* the call handler(records) of a state function, up to its polling loop
NzsEnter(key, l) ==
    /\ log' = EmitAll(Emit(l, HandlerRan(states[key].handler)),
                      NzsEntry(states[key].handler), 1)
    /\ EnterPoll

\* the checks that open run
NzsRunCheck(ss, es) ==
    IF ~Truthy(ss) THEN NoStart
    ELSE IF es = <<>> THEN NzsNoEnd
    ELSE ""

\* StateMachine.run of nonZeroSpeedSM up to the loop of the first state function
NzsRun ==
    /\ pc = "build"
    /\ program = "nonZeroSpeedSM"
    /\ nadd = Len(NzsStates)
    /\ startState /= None
    /\ IF NzsRunCheck(startState, endStates) /= ""
       THEN /\ log' = Emit(log, Printed("error", NzsRunCheck(startState, endStates)))
            /\ pc' = "exited"
            /\ error' = NzsRunCheck(startState, endStates)
            /\ UNCHANGED <<prevState, currState, nextState, waitTime, elapsed,
                           nscan>>
       ELSE /\ currState' = startState
            /\ prevState' = startState
            /\ pc' = "poll"
            /\ NzsEnter(startState, log)
            /\ UNCHANGED error
    /\ UNCHANGED <<program, states, startState, endStates, Input, nadd, cameFrom>>

\* one iteration of the polling loop of a state function (for a function
\* without a loop: its body), up to its return
NzsPoll ==
    /\ pc = "poll"
    /\ program = "nonZeroSpeedSM"
    /\ LET h == states[currState].handler
       IN  /\ nscan' = Min(nscan + 1, MaxScan)
           /\ IF NzsOk(h, Input)
              THEN /\ nextState' = NzsNext(h, Input)
                   /\ log' = EmitAll(log, NzsNextMsg(h, Input), 1)
                   /\ pc' = "ret"
                   /\ UNCHANGED waitTime
              ELSE IF waitTime > ERROR_TIME
              THEN /\ nextState' = "rec_error"
                   /\ log' = EmitAll(log, NzsTimeoutMsg(h), 1)
                   /\ pc' = "ret"
                   /\ UNCHANGED waitTime
              ELSE /\ waitTime' = elapsed
                   /\ UNCHANGED <<nextState, log, pc>>
    /\ UNCHANGED <<program, states, startState, endStates, prevState, Input,
                   currState, elapsed, nadd, error, cameFrom>>

\* mutant: the handler of an end state is not called
NzsAdvanceNoHandler ==
    /\ pc = "ret"
    /\ program = "nonZeroSpeedSM"
    /\ LET key == upper(nextState)
       IN  /\ Input' = [Input EXCEPT !["prevState"] = prevState]
           /\ prevState' = nextState
           /\ cameFrom' = states[currState].name
           /\ currState' = key
           /\ IF InList(key, endStates)
              THEN /\ log' = Emit(log, Printed("ended", key))
                   /\ pc' = "done"
                   /\ UNCHANGED <<nextState, waitTime, elapsed, nscan>>
              ELSE /\ pc' = "poll"
                   /\ NzsEnter(key, Emit(log, Printed("in", key)))
    /\ UNCHANGED <<program, states, startState, endStates, nadd, error>>

\* mutant: the handler of an end state is called before the run's end is reported
NzsAdvanceHandlerFirst ==
    /\ pc = "ret"
    /\ program = "nonZeroSpeedSM"
    /\ LET key == upper(nextState)
       IN  /\ Input' = [Input EXCEPT !["prevState"] = prevState]
           /\ prevState' = nextState
           /\ cameFrom' = states[currState].name
           /\ currState' = key
           /\ IF InList(key, endStates)
              THEN /\ log' = Emit(EmitAll(Emit(log, HandlerRan(states[key].handler)),
                                          NzsEntry(states[key].handler), 1),
                                  Printed("ended", key))
                   /\ pc' = "done"
                   /\ UNCHANGED <<nextState, waitTime, elapsed, nscan>>
              ELSE /\ pc' = "poll"
                   /\ NzsEnter(key, Emit(log, Printed("in", key)))
    /\ UNCHANGED <<program, states, startState, endStates, nadd, error>>

\* the rest of the body of run's loop after a state function returned, and the
\* call of the next one
NzsAdvance ==
    /\ pc = "ret"
    /\ program = "nonZeroSpeedSM"
    /\ LET key == upper(nextState)
       IN  /\ Input' = [Input EXCEPT !["prevState"] = prevState]
           /\ prevState' = nextState
           /\ cameFrom' = states[currState].name
           /\ currState' = key
           /\ IF InList(key, endStates)
              THEN /\ log' = EmitAll(Emit(Emit(log, Printed("ended", key)),
                                          HandlerRan(states[key].handler)),
                                     NzsEntry(states[key].handler), 1)
                   /\ pc' = "done"
                   /\ UNCHANGED <<nextState, waitTime, elapsed, nscan>>
              ELSE /\ pc' = "poll"
                   /\ NzsEnter(key, Emit(log, Printed("in", key)))
    /\ UNCHANGED <<program, states, startState, endStates, nadd, error>>

----------------------------------------------------------------------------
(* The environment: the input points change and time passes while a state polls *)

PointValues(p) ==
    CASE p \in {"voltAz"} -> {0, 300, -600}
      [] p \in {"voltEl"} -> {0, 300, 600}
      [] p \in {"azPosErr", "elPosErr"} -> {0, 50}
      [] p \in {"azDriveCond", "elDriveCond"} -> {1, 2}
      [] OTHER -> {0, 1}

RECURSIVE RowPoints(_, _)
RowPoints(tt, k) ==
    IF k > Len(tt) THEN {}
    ELSE {tt[k].inp[j] : j \in DOMAIN tt[k].inp} \cup RowPoints(tt, k + 1)

\* the points the current state reads while it polls
ReadPoints ==
    IF program = "nonZeroSpeedSM" THEN NzsReads(states[currState].handler)
    ELSE RowPoints(states[currState].transitions, 1) \ {"", "prevState"}

\* A point takes another value.  Only the points the polling state reads are
\* followed: a change of another point cannot be observed before a state that
\* reads it polls, and this action can make it then, before that state's first scan.
Env ==
    /\ pc = "poll"
    /\ \E p \in ReadPoints : \E v \in PointValues(p) \ {Input[p]} :
           Input' = [Input EXCEPT ![p] = v]
    /\ UNCHANGED <<program, states, startState, endStates, prevState, pc,
                   currState, nextState, waitTime, elapsed, nscan, nadd, error,
                   cameFrom, log>>

\* time passes while a polling loop runs
Tick ==
    /\ pc = "poll"
    /\ program = "nonZeroSpeedSM" => NzsHasLoop(states[currState].handler)
    /\ elapsed <= ERROR_TIME
    /\ \E d \in {TickStep, TickStep + 1} : elapsed' = Sat(elapsed + d)
    /\ UNCHANGED <<program, states, startState, endStates, prevState, Input, pc,
                   currState, nextState, waitTime, nscan, nadd, error, cameFrom, log>>

----------------------------------------------------------------------------
(* A generic build script: StateMachine(), add_state calls, run *)

Init ==
    /\ program = "generic"
    /\ states = <<>>
    /\ startState = None
    /\ endStates = <<>>
    /\ prevState = ""
    /\ Input = [p \in GenericPoints \cup {"prevState"} |->
                   IF p = "prevState" THEN "" ELSE 0]
    /\ pc = "build"
    /\ currState = None
    /\ nextState = Unbound
    /\ waitTime = 0
    /\ elapsed = 0
    /\ nscan = 0
    /\ nadd = 0
    /\ error = ""
    /\ cameFrom = None
    /\ log = <<>>

Next == AddState \/ Run \/ Scan \/ Advance \/ Env \/ Tick

Spec == Init /\ [][Next]_vars

----------------------------------------------------------------------------
(* The recovery scripts *)

InitRec ==
    /\ program \in {"nzsfRecovery", "nonZeroSpeedSM"}
    /\ states = <<>>
    /\ startState = None
    /\ endStates = <<>>
    /\ prevState = ""
    /\ Input = [p \in RecPoints \cup {"prevState"} |->
                   IF p = "prevState" THEN ""
                   ELSE IF p \in {"azDriveCond", "elDriveCond"} THEN 1 ELSE 0]
    /\ pc = "build"
    /\ currState = None
    /\ nextState = Unbound
    /\ waitTime = 0
    /\ elapsed = 0
    /\ nscan = 0
    /\ nadd = 0
    /\ error = ""
    /\ cameFrom = None
    /\ log = <<>>

NextRec ==
    \/ AddRec \/ Run \/ Scan \/ Advance
    \/ NzsAddState \/ NzsSetStart \/ NzsRun \/ NzsPoll \/ NzsAdvance
    \/ Env \/ Tick

SpecRec == InitRec /\ [][NextRec]_vars

\* the single thread runs on, and the clock advances
FairSpec == Spec /\ WF_vars(Scan) /\ WF_vars(Advance) /\ WF_vars(Tick)

\* the recovery scripts, their single thread running on and the clock advancing
FairSpecRec ==
    /\ SpecRec
    /\ WF_vars(AddRec) /\ WF_vars(Run) /\ WF_vars(Scan) /\ WF_vars(Advance)
    /\ WF_vars(NzsAddState) /\ WF_vars(NzsSetStart) /\ WF_vars(NzsRun)
    /\ WF_vars(NzsPoll) /\ WF_vars(NzsAdvance)
    /\ WF_vars(Tick)

----------------------------------------------------------------------------
(* Notions used by the properties *)

\* the handler invocations recorded in the log
HandlerEvents(l) == SelectSeq(l, LAMBDA e : e.k = "handler")

\* the log still holds everything that was emitted
LogComplete == Len(log) < LogCap

\* the transition table the current state polls
CurrTable == states[currState].transitions

\* this step is an iteration of the polling loop: neither the inputs nor the
\* clock change in it
ScanStep == pc = "poll" /\ Input' = Input /\ elapsed' = elapsed

\* this step is the call of run
RunStep == pc = "build" /\ pc' /= "build" /\ nadd' = nadd

\* every non-terminal state has an always-true row, every target is registered
WellFormed ==
    /\ \A k \in DOMAIN states :
          ~states[k].endState =>
              \E j \in DOMAIN states[k].transitions :
                  states[k].transitions[j].cond = "true"
    /\ \A k \in DOMAIN states :
          \A j \in DOMAIN states[k].transitions :
              upper(states[k].transitions[j].target) \in DOMAIN states

----------------------------------------------------------------------------
(* Properties *)

\* C1: when run has ended, the last handler invoked is the handler of the
\* terminal state the run stopped on, and it was invoked exactly once.
C1_TerminalHandlerLast ==
    (pc = "done" /\ LogComplete) =>
        LET h == HandlerEvents(log)
        IN  /\ Len(h) > 0
            /\ h[Len(h)].s = states[currState].handler
            /\ Cardinality({i \in DOMAIN h : h[i].s = states[currState].handler}) = 1

\* C2: once a guard of the current state has been evaluated in this visit,
\* the handler of the current state has been run (it is the last handler run).
C2_HandlerBeforeGuards ==
    (pc \in {"poll", "ret"} /\ nscan > 0 /\ LogComplete) =>
        LET h == HandlerEvents(log)
        IN  Len(h) > 0 /\ h[Len(h)].s = states[currState].handler

\* C3: when run_transitions leaves its polling loop with an error-path
\* transition, more than ERROR_TIME seconds have elapsed since the loop's
\* startTime, both as measured (waitTime) and in fact (elapsed).
C3_ErrorOnlyAfterTimeout ==
    (pc = "ret" /\ Lookup(CurrTable, nextState).error) =>
        (waitTime > ERROR_TIME /\ elapsed > ERROR_TIME)

C3_Witness ==
    pc = "ret" /\ Lookup(CurrTable, nextState).error /\ elapsed > ERROR_TIME

\* C4 as stated, in a form it implies: a scan made before the timeout while the
\* guard of some non-error-path row is true leaves the loop, with the target of
\* a non-error-path row whose guard is true.
C4_Original ==
    [][pc = "poll" =>
         ((/\ ScanStep
           /\ elapsed < ERROR_TIME
           /\ \E k \in DOMAIN CurrTable :
                  /\ ~CurrTable[k].error
                  /\ Cond(CurrTable[k].cond, CurrTable[k].inp, Input))
          => (/\ pc' = "ret"
              /\ \E k \in DOMAIN CurrTable :
                     /\ ~CurrTable[k].error
                     /\ Cond(CurrTable[k].cond, CurrTable[k].inp, Input)
                     /\ nextState' = CurrTable[k].target))]_vars

\* C4 amended: a scan in which a non-error-path row is the first row of the
\* table whose guard is true leaves the loop at that scan with that row's target.
C4_FirstTrueFires ==
    [][pc = "poll" =>
         \A k \in DOMAIN CurrTable :
             (/\ ScanStep
              /\ ~CurrTable[k].error
              /\ Cond(CurrTable[k].cond, CurrTable[k].inp, Input)
              /\ \A j \in 1..(k - 1) :
                     ~Cond(CurrTable[j].cond, CurrTable[j].inp, Input))
             => (pc' = "ret" /\ nextState' = CurrTable[k].target)]_vars

\* a non-error-path transition fired at a later scan of the loop, after time passed
C4_Witness ==
    /\ pc = "ret"
    /\ ~Lookup(CurrTable, nextState).error
    /\ nscan >= 2
    /\ elapsed > 0

\* C5 as stated: a run of a well-formed machine that polls a non-terminal state
\* eventually ends.
C5_Original ==
    [](((pc = "poll" /\ WellFormed) /\ ~states[currState].endState)
          => <>(pc = "done"))

\* C5 amended: in a well-formed machine every polling loop of a non-terminal
\* state is left, and a run that has ended has ended on a terminal state.
C5_PollingEnds ==
    /\ [](((pc = "poll" /\ WellFormed) /\ ~states[currState].endState)
             => <>(pc = "ret"))
    /\ [](pc = "done" => InList(currState, endStates))

\* a well-formed machine left a polling loop through the timeout
C5_Witness ==
    /\ pc = "ret"
    /\ WellFormed
    /\ Lookup(CurrTable, nextState).error
    /\ elapsed > ERROR_TIME

\* C6: a start state, once accepted, is never replaced, and run is never
\* invoked on a machine that has no start state.
C6_Original ==
    [][/\ (startState /= None => startState' = startState)
       /\ (RunStep => startState /= None)]_vars

\* C7: run called on a machine with no start state or no end state exits with
\* the InitializationError message and changes nothing else: no scan, no
\* handler, Input and prevState as they were.
C7_RunHaltsUnconfigured ==
    [][(RunStep /\ (startState = None \/ endStates = <<>>)) =>
          /\ pc' = "exited"
          /\ error' \in {NoStart, NoEnd}
          /\ log' = Emit(log, Printed("error", error'))
          /\ nscan' = 0 /\ nscan = 0
          /\ UNCHANGED <<Input, prevState, currState, nextState>>]_vars

C7_Witness == pc = "exited" /\ error = NoEnd /\ startState /= None

\* C8: while a state entered by a transition is current, Input['prevState'] is
\* the name of the state that was current before it.
C8_Original ==
    (pc \in {"poll", "ret"} /\ cameFrom /= None) => Input["prevState"] = cameFrom

\* the output points written so far
Puts(l) == SelectSeq(l, LAMBDA e : e.k = "put")

\* C9: the table-driven recovery machine leaves follow_off for rec_error only
\* after more than ERROR_TIME seconds, and when its run has ended on rec_error
\* reached from follow_off, rec_error's handler has been run and has written 0
\* to mcsTrackDis.
C9_Original ==
    program = "nzsfRecovery" =>
        /\ (pc = "ret" /\ currState = "FOLLOW_OFF" /\ nextState = "rec_error")
               => elapsed > ERROR_TIME
        /\ (pc = "done" /\ currState = "REC_ERROR" /\ cameFrom = "follow_off")
               => /\ \E k \in DOMAIN log : log[k] = HandlerRan("rec_error")
                  /\ \E k \in DOMAIN log : log[k] = Put("mcsTrackDis", "0")

\* C10: in both recovery machines a scan of the start state made while nzsAz
\* and nzsEl are 0 chooses no_fault, whatever the other points hold, and the
\* run then ends on no_fault without any output point having been written.
C10_NoFaultAtOnce ==
    [][/\ (/\ ScanStep
           /\ currState = "START"
           /\ Input["nzsAz"] = 0 /\ Input["nzsEl"] = 0)
          => (pc' = "ret" /\ nextState' = "no_fault")
       /\ (pc = "ret" /\ currState = "START" /\ nextState = "no_fault")
          => (/\ pc' = "done"
              /\ currState' = "NO_FAULT"
              /\ Puts(log') = <<>>)]_vars

\* a run ended on no_fault at its first scan, with follow mode on and a high voltage
C10_Witness ==
    /\ pc = "done"
    /\ currState = "NO_FAULT"
    /\ nscan = 1
    /\ Input["mcsFollow"] = 1
    /\ Input["voltAz"] = -600
    /\ Puts(log) = <<>>

\* C11: in the table-driven recovery machine a scan of the start state made
\* while nzsAz and mcsFollow are set chooses follow_off, and a scan of
\* follow_off, entered from start, made within the timeout while mcsFollow is 0
\* leaves the loop for follow_on, voltage_zero or clear_nzsf.
C11_Original ==
    [][program = "nzsfRecovery" =>
          /\ (/\ ScanStep
              /\ currState = "START"
              /\ Input["nzsAz"] /= 0 /\ Input["mcsFollow"] /= 0)
             => (pc' = "ret" /\ nextState' = "follow_off")
          /\ (/\ ScanStep
              /\ currState = "FOLLOW_OFF" /\ cameFrom = "start"
              /\ Input["mcsFollow"] = 0
              /\ elapsed <= ERROR_TIME)
             => (/\ pc' = "ret"
                 /\ nextState' \in {"follow_on", "voltage_zero", "clear_nzsf"})]_vars

\* the state that follows fault_cleared, as C12 states it
AzBeforeEl(az, el) ==
    IF az = 2 THEN "az_disassert"
    ELSE IF el = 2 THEN "el_disassert"
    ELSE "disable_tracking"

\* the table of fault_cleared as run_transitions scans it
FaultClearedTable ==
    init_transitions(State("fault_cleared", "fault_cleared", fault_cleared_trans,
                           FALSE, FALSE)).transitions

\* the table of nzsfRecovery gives that state for all values of the two points
FaultClearedTableOk ==
    \A az \in 0..3 : \A el \in 0..3 :
        LET i   == [azDriveCond |-> az, elDriveCond |-> el]
            hit == FirstTrue(FaultClearedTable, i, 1)
        IN  /\ hit > 0
            /\ FaultClearedTable[hit].target = AzBeforeEl(az, el)
            /\ ~FaultClearedTable[hit].error

\* C12: in both recovery machines the state that follows fault_cleared is
\* az_disassert when azDriveCond is 2, whatever elDriveCond is; el_disassert
\* when only elDriveCond is 2; disable_tracking when neither is 2.  It holds of
\* the table of nzsfRecovery for all values of the two points, and of every
\* scan either machine makes in fault_cleared.
C12_AzCheckedFirst ==
    [][/\ FaultClearedTableOk
       /\ (ScanStep /\ currState = "FAULT_CLEARED")
          => (/\ pc' = "ret"
              /\ nextState' = AzBeforeEl(Input["azDriveCond"], Input["elDriveCond"]))]_vars

\* fault_cleared was left for az_disassert while both drive conditions were 2
C12_Witness ==
    /\ pc = "ret"
    /\ currState = "FAULT_CLEARED"
    /\ Input["azDriveCond"] = 2
    /\ Input["elDriveCond"] = 2
    /\ nextState = "az_disassert"

\* the reports of a state change: "Recovery in X state", "Recovery ended on X"
Reports(l) == SelectSeq(l, LAMBDA e : e.k \in {"in", "ended"})

\* every state change has been reported: the last report names the current state
ChangesReported ==
    (pc \in {"poll", "ret", "done"} /\ cameFrom /= None /\ LogComplete) =>
        /\ Reports(log) /= <<>>
        /\ Reports(log)[Len(Reports(log))].s = currState

C14_TimeoutPerState ==
    [][/\ (pc /= "poll" /\ pc' = "poll") => (elapsed' = 0 /\ waitTime' = 0)
       /\ (/\ ScanStep /\ pc' = "ret"
           /\ program \in {"generic", "nzsfRecovery"}
           /\ Lookup(CurrTable, nextState').error)
          => (elapsed > ERROR_TIME /\ waitTime' > ERROR_TIME)
       /\ (/\ ScanStep /\ pc' = "ret"
           /\ program = "nonZeroSpeedSM"
           /\ ~NzsOk(states[currState].handler, Input))
          => (elapsed > ERROR_TIME /\ nextState' = "rec_error")]_vars

\* the timeout of a state reached after ten others ended its polling
C14_Witness ==
    /\ pc = "ret"
    /\ currState = "EL_ASSERT"
    /\ nextState = "rec_error"
    /\ elapsed > ERROR_TIME

\* the candidate a scan of table tt with inputs i yields when no scan was made
\* before it: the target of the first row whose guard is true, if there is one
FirstScanCandidate(tt, i) ==
    IF FirstTrue(tt, i, 1) > 0 THEN tt[FirstTrue(tt, i, 1)].target ELSE Unbound

\* C15: the candidate a scan of the table yields depends on nothing but the
\* table and the inputs it is made with: it is the candidate the same scan
\* yields when it is the first scan of a polling loop.
C15_Original ==
    [][(/\ ScanStep
        /\ program \in {"generic", "nzsfRecovery"}
        /\ FirstTrue(CurrTable, Input, 1) >= 0)
       => nextState' = FirstScanCandidate(CurrTable, Input)]_vars

\* C16: the target run_transitions returns is that of a row whose guard was
\* true in the last scan of the loop while the guard of every row declared
\* before it was false in that scan.
C16_Original ==
    [][(/\ ScanStep
        /\ program \in {"generic", "nzsfRecovery"}
        /\ pc' = "ret")
       => \E k \in DOMAIN CurrTable :
              /\ CurrTable[k].target = nextState'
              /\ Cond(CurrTable[k].cond, CurrTable[k].inp, Input)
              /\ \A j \in 1..(k - 1) :
                     ~Cond(CurrTable[j].cond, CurrTable[j].inp, Input)]_vars

\* C17: the table run_transitions scans is the transition array the state was
\* declared with: every row, in declared order.
C17_Original ==
    \A k \in DOMAIN states :
        ~states[k].endState => states[k].transitions = states[k].tarray

\* C18: a scan of the table of a non-terminal state in which no guard is true
\* keeps the loop polling: the process neither fails nor leaves the loop with a
\* target.
C18_Original ==
    [][(/\ ScanStep
        /\ program \in {"generic", "nzsfRecovery"}
        /\ ~states[currState].endState
        /\ FirstTrue(CurrTable, Input, 1) = 0)
       => (pc' = "poll" /\ error' = "")]_vars

\* C19: run never polls the table of a terminal state, and run called on a
\* machine whose start state is terminal ends at once on the start state.
C19_Original ==
    [][/\ (pc' = "poll" /\ program \in {"generic", "nzsfRecovery"})
          => ~states[currState'].endState
       /\ (/\ RunStep
           /\ RunCheck(startState, endStates) = ""
           /\ states[startState].endState)
          => (pc' = "done" /\ currState' = startState)]_vars

\* C20: every run of the table-driven recovery machine eventually ends, on one
\* of its terminal states.
C20_Original ==
    program = "nzsfRecovery" =>
        <>(pc = "done" /\ currState \in {"NO_FAULT", "REC_SUCCESS", "REC_ERROR"})

\* what one iteration of the polling loop of state function h of nonZeroSpeedSM
\* does with inputs i, wt seconds into the loop: the newState it returns, or
\* Unbound when it polls again
NzsOutcome(h, i, wt) ==
    IF NzsOk(h, i) THEN NzsNext(h, i)
    ELSE IF wt > ERROR_TIME THEN "rec_error"
    ELSE Unbound

\* C21: the table-driven machine does at every scan what the explicit machine
\* does in the same state with the same inputs at the same time: it leaves the
\* state for the same next state, or polls again.
C21_Original ==
    [][(ScanStep /\ program = "nzsfRecovery") =>
          LET out == NzsOutcome(states[currState].name, Input, elapsed)
          IN  IF out = Unbound
              THEN pc' = "poll"
              ELSE pc' = "ret" /\ nextState' = out]_vars

\* the number of times the run entered state key
Entries(l, key) == Len(SelectSeq(l, LAMBDA e : e = Printed("in", key)))

\* C22: in a run of the explicit machine follow_on is entered at most twice and
\* follow_off at most twice; follow_on entered from follow_off is left for
\* rec_success or rec_error, and follow_off entered from follow_on is left for
\* follow_on or rec_error.
C22_RetryBounded ==
    (program = "nonZeroSpeedSM" /\ LogComplete) =>
        /\ Entries(log, "FOLLOW_ON") <= 2
        /\ Entries(log, "FOLLOW_OFF") <= 2
        /\ (pc = "ret" /\ currState = "FOLLOW_ON" /\ Input["prevState"] = "follow_off")
              => nextState \in {"rec_success", "rec_error"}
        /\ (pc = "ret" /\ currState = "FOLLOW_OFF" /\ Input["prevState"] = "follow_on")
              => nextState \in {"follow_on", "rec_error"}

\* a run that entered follow_off twice and follow_on twice has ended
C22_Witness ==
    /\ program = "nonZeroSpeedSM"
    /\ pc = "done"
    /\ LogComplete
    /\ Entries(log, "FOLLOW_ON") = 2
    /\ Entries(log, "FOLLOW_OFF") = 2

\* the values written to output point p, in order
Written(l, p) == SelectSeq(l, LAMBDA e : e.k = "put" /\ e.s = p)

\* C23: when a run of the explicit machine has ended and 1 was written to
\* mcsTrackDis during it, the last value written to mcsTrackDis is 0.
C23_TrackingReenabled ==
    (program = "nonZeroSpeedSM" /\ pc = "done" /\ LogComplete) =>
        LET w == Written(log, "mcsTrackDis")
        IN  (\E k \in DOMAIN w : w[k].v = "1") => w[Len(w)].v = "0"

\* a run that disabled tracking ended on rec_error before enable_tracking was reached
C23_Witness ==
    /\ program = "nonZeroSpeedSM"
    /\ pc = "done"
    /\ LogComplete
    /\ currState = "REC_ERROR"
    /\ cameFrom = "az_assert"
    /\ Written(log, "mcsTrackDis") = <<Put("mcsTrackDis", "1"), Put("mcsTrackDis", "0")>>

====
